---- MODULE Spec2Model ----
(***************************************************************************)
(* Model of hekmon/go-comicinfo: the versioned ComicInfo document records, *)
(* their Validate rule chains and the validate-then-serialize Encode       *)
(* pipeline.                                                               *)
(*                                                                         *)
(* The source tree holds several shapes of the same revision.  Each shape  *)
(* is modelled separately and selected by the variable `shape`:            *)
(*   "v1"   ComicInfov1                         src/v1.go:19-116           *)
(*   "v2e"  ComicInfov2 embedding ComicInfov1   src/v1.go:271-346          *)
(*   "v2l"  ComicInfov2 flat, string enums      src/unnamed/part_003       *)
(*   "v2"   ComicInfov2 flat, typed enums       src/v2.go                  *)
(*   "v21e" ComicInfov21 embedding ComicInfov2  src/v2.1.go                *)
(*   "v21"  ComicInfov21 flat, typed enums      src/unnamed/part_000       *)
(*                                                                         *)
(* Data representation.                                                    *)
(*  - Web and Language are sequences of one-character strings over Chars,  *)
(*    so that strings.Split is computed, not assumed.                      *)
(*  - Enumerated fields and page keys are TLA+ strings.                    *)
(*  - A community rating is Nil (absent pointer) or an integer number of   *)
(*    thousandths: 4567 stands for 4.567.  The float64 rounding error of   *)
(*    the code (about 1e-15) is far below every threshold it compares      *)
(*    against (0.01, 0.1), so exact fixed-point arithmetic gives the same  *)
(*    verdicts.                                                            *)
(*  - A document is one flat record.  Fields of an embedded record keep    *)
(*    the embedded record's position in the name:                          *)
(*       PagesV1           ComicInfov1.Pages       (PagesV1)               *)
(*       Pages             ComicInfov2.Pages / flat ComicInfov21.Pages     *)
(*       CommunityRating   ComicInfov2.CommunityRating / flat v21          *)
(*       Pages21           ComicInfov21.Pages re-declared in src/v2.1.go   *)
(*       CommunityRating21 ComicInfov21.CommunityRating of src/v2.1.go     *)
(*    A field a shape does not have holds its zero value.                  *)
(*  - Every Encode call gets a sink of its own: sink and root hold what    *)
(*    the call in progress (or the last call) wrote, done holds the        *)
(*    outcomes of the calls that returned before it, left the number of    *)
(*    calls the caller has yet to make.                                    *)
(*  - These variables are the state of the goroutine that is running.      *)
(*    parked is empty, or holds the same state of a second goroutine that  *)
(*    is waiting to run; Switch exchanges the two.                         *)
(***************************************************************************)
EXTENDS Integers, Sequences, FiniteSets, TLC

VARIABLES shape, ci, pc, output, sink, root, err, calls, done, left, parked

vars == <<shape, ci, pc, output, sink, root, err, calls, done, left, parked>>

(***************************************************************************)
(* Bounds of the model                                                     *)
(***************************************************************************)
\* longest Web / Language string drawn by InitWeb
MaxStrLen == 2
\* longest page collection drawn by InitPages
MaxPages == 3
\* number of validated fields the caller sets in the documents of Init
MaxSet == 3
\* number of Validate / Encode calls the caller of InitTwice makes in a row
MaxCalls == 2
\* number of validated fields set in the document of the first goroutine
\* of InitConcurrent
MaxSetConcurrent == 1

Shapes == {"v1", "v2e", "v2l", "v2", "v21e", "v21"}

\* an absent (nil) *CommunityRating; a present rating r is the tuple <<r>>
Nil == <<>>

\* the float64 value NaN (math.NaN()), which is no number of thousandths
NaN == <<0, 0>>

IsNaN(v) == Len(v) = 2

\* fixed-point resolution: ratings are integers counting thousandths
Milli == 10 * 100

(***************************************************************************)
(* Errors.  A Go error value is modelled by the rule that produced it      *)
(* (kind), the position it reports (pos, 0 when the message has none),     *)
(* the inner cause for page errors and the wrapping added by Encode (ctx). *)
(***************************************************************************)
NoError == [kind |-> "nil", pos |-> 0, cause |-> "", ctx |-> ""]

Error(kind, pos, cause) == [kind |-> kind, pos |-> pos, cause |-> cause, ctx |-> ""]

Wrap(ctx, e) == [e EXCEPT !.ctx = ctx]

(***************************************************************************)
(* External collaborators.  The URL parser and the language-tag parser are *)
(* outside the repository; they are modelled over the alphabet Chars.      *)
(*   "n"  a letter, "%"  a percent sign not followed by two hex digits     *)
(*   (net/url rejects it as an invalid escape), " "  the separator.        *)
(***************************************************************************)
Chars == {"n", "%", " "}

\* url.Parse(token) returns no error
urlParse(token) == \A i \in 1..Len(token) : token[i] # "%"

\* language.Parse(tag) returns no error: "nn" is the only known tag here
languageParse(tag) == tag = <<"n", "n">>

RECURSIVE SplitFrom(_, _, _, _)
SplitFrom(s, i, cur, acc) ==
    IF i > Len(s) THEN Append(acc, cur)
    ELSE IF s[i] = " " THEN SplitFrom(s, i + 1, <<>>, Append(acc, cur))
    ELSE SplitFrom(s, i + 1, Append(cur, s[i]), acc)

\* strings.Split(s, " "): the empty string yields one empty token
Split(s) == SplitFrom(s, 1, <<>>, <<>>)

(***************************************************************************)
(* A rule result is the error (NoError when the rule passes) together with *)
(* the log of oracle calls made so far.                                    *)
(***************************************************************************)
Result(e, log) == [err |-> e, calls |-> log]

Call(oracle, arg) == [oracle |-> oracle, arg |-> arg]

RECURSIVE URLLoop(_, _, _)
URLLoop(tokens, i, log) ==
    IF i > Len(tokens) THEN Result(NoError, log)
    ELSE LET log2 == Append(log, Call("url.Parse", tokens[i]))
         IN IF ~urlParse(tokens[i])
            THEN Result(Error("URL", i - 1, ""), log2)
            ELSE URLLoop(tokens, i + 1, log2)

\* for index, URL := range strings.Split(field, " ") { url.Parse(URL) ... }
ValidateURLs(field, log) == URLLoop(Split(field), 1, log)

\* if lang != "" { language.Parse(lang) ... }
ValidateLanguage(lang, log) ==
    IF lang # <<>>
    THEN LET log2 == Append(log, Call("language.Parse", lang))
         IN IF ~languageParse(lang)
            THEN Result(Error("Language", 0, ""), log2)
            ELSE Result(NoError, log2)
    ELSE Result(NoError, log)

(***************************************************************************)
(* Enumerated value types                                                  *)
(***************************************************************************)
YesNoTokens == {"Unknown", "No", "Yes"}

MangaTokens == {"Unknown", "No", "Yes", "YesAndRightToLeft"}

AgeRatingTokens ==
    {"Unknown", "Adults Only 18+", "Early Childhood", "Everyone",
     "Everyone 10+", "G", "Kids to Adults", "M", "MA15+", "Mature 17+",
     "PG", "R18+", "Rating Pending", "Teen", "X18+"}

PageTypeTokens ==
    {"FrontCover", "InnerCover", "Roundup", "Story", "Advertisement",
     "Editorial", "Letters", "Preview", "BackCover", "Other", "Deleted"}

\* isV1YesNoValid without the empty string
isV1YesNoValidNoEmpty(value) == value \in {"Unknown", "No", "Yes"}

isV1YesNoValid(value) == value \in {"", "Unknown", "No", "Yes"}

\* isV2MangaValid with the vocabulary of isV1YesNoValid
isV2MangaValidYesNo(value) == value \in {"", "Unknown", "No", "Yes"}

isV2MangaValid(value) == value \in {"", "Unknown", "No", "Yes", "YesAndRightToLeft"}

isV2AgeRatingValid(value) ==
    value \in {"", "Unknown", "Adults Only 18+", "Early Childhood", "Everyone",
               "Everyone 10+", "G", "Kids to Adults", "M", "MA15+",
               "Mature 17+", "PG", "R18+", "Rating Pending", "Teen", "X18+"}

AgeRatingIsValid(ag) ==
    ag \in {"", "Unknown", "Adults Only 18+", "Early Childhood", "Everyone",
            "Everyone 10+", "G", "Kids to Adults", "M", "MA15+",
            "Mature 17+", "PG", "R18+", "Rating Pending", "Teen", "X18+"}

\* YesNo.IsValid, Manga.IsValid and PageType.Valid are called by src/v2.go
\* and src/unnamed/part_000 but defined in a file that is not in the tree;
\* they follow the specification: the vocabulary plus the empty string.
YesNoIsValid(yn) == yn \in YesNoTokens \cup {""}

MangaIsValid(m) == m \in MangaTokens \cup {""}

PageTypeValid(pt) == pt \in PageTypeTokens \cup {""}

PageTypeV1Valid(pt) ==
    pt \in {"FrontCover", "InnerCover", "Roundup", "Story", "Advertisement",
            "Editorial", "Letters", "Preview", "BackCover", "Other", "Deleted"}

(***************************************************************************)
(* Page descriptors and page collections                                   *)
(***************************************************************************)
\* PageV1.Validate accepting a zero width
PageV1ValidateZeroWidth(p) ==
    IF ~PageTypeV1Valid(p.Type) THEN "invalid page type"
    ELSE IF ~(p.ImageWidth >= 0 \/ p.ImageWidth = -1) THEN "image width"
    ELSE IF ~(p.ImageHeight > 0 \/ p.ImageHeight = -1) THEN "image height"
    ELSE ""

\* PageV1.Validate testing the width before the role
PageV1ValidateWidthFirst(p) ==
    IF ~(p.ImageWidth > 0 \/ p.ImageWidth = -1) THEN "image width"
    ELSE IF ~PageTypeV1Valid(p.Type) THEN "invalid page type"
    ELSE IF ~(p.ImageHeight > 0 \/ p.ImageHeight = -1) THEN "image height"
    ELSE ""

\* PageV1.Validate; PageV2 of src/v1.go:385 and src/unnamed/part_003:175
\* embeds PageV1 and so validates through the same method
PageV1Validate(p) ==
    IF ~PageTypeV1Valid(p.Type) THEN "invalid page type"
    ELSE IF ~(p.ImageWidth > 0 \/ p.ImageWidth = -1) THEN "image width"
    ELSE IF ~(p.ImageHeight > 0 \/ p.ImageHeight = -1) THEN "image height"
    ELSE ""

\* PageV2.Validate rejecting a negative image index
PageV2ValidateImageChecked(p) ==
    IF p.Image < 0 THEN "image index"
    ELSE IF ~PageTypeValid(p.Type) THEN "invalid page type"
    ELSE IF ~(p.ImageWidth > 0 \/ p.ImageWidth = -1) THEN "image width"
    ELSE IF ~(p.ImageHeight > 0 \/ p.ImageHeight = -1) THEN "image height"
    ELSE ""

\* PageV2.Validate of src/v2.go (typed page role)
PageV2Validate(p) ==
    IF ~PageTypeValid(p.Type) THEN "invalid page type"
    ELSE IF ~(p.ImageWidth > 0 \/ p.ImageWidth = -1) THEN "image width"
    ELSE IF ~(p.ImageHeight > 0 \/ p.ImageHeight = -1) THEN "image height"
    ELSE ""

\* the duplicate-key error reporting the 0-based index
DuplicateKeyErrorZeroBased(i) == Error("Pages", i, "duplicate key")

\* fmt.Errorf("duplicate key found for page %d: %q", i+1, p.Key); i is the
\* 0-based range index of the code
DuplicateKeyError(i) == Error("Pages", i + 1, "duplicate key")

\* fmt.Errorf("failed to validate page %d: %w", i+1, err)
PageError(i, cause) == Error("Pages", i + 1, cause)

\* the loop of PagesV1.Validate taking an empty key for a key left unset and
\* exempting it from the uniqueness test
RECURSIVE PagesV1LoopEmptyKeyExempt(_, _, _)
PagesV1LoopEmptyKeyExempt(ps, i, keys) ==
    IF i >= Len(ps) THEN NoError
    ELSE LET p == ps[i + 1]
         IN IF p.Key # "" /\ p.Key \in keys THEN DuplicateKeyError(i)
            ELSE IF PageV1Validate(p) # "" THEN PageError(i, PageV1Validate(p))
            ELSE PagesV1LoopEmptyKeyExempt(ps, i + 1, keys \cup {p.Key})

RECURSIVE PagesV1Loop(_, _, _)
PagesV1Loop(ps, i, keys) ==
    IF i >= Len(ps) THEN NoError
    ELSE LET p == ps[i + 1]
         IN IF p.Key \in keys THEN DuplicateKeyError(i)
            ELSE IF PageV1Validate(p) # "" THEN PageError(i, PageV1Validate(p))
            ELSE PagesV1Loop(ps, i + 1, keys \cup {p.Key})

RECURSIVE PagesV2Loop(_, _, _)
PagesV2Loop(ps, i, keys) ==
    IF i >= Len(ps) THEN NoError
    ELSE LET p == ps[i + 1]
         IN IF p.Key \in keys THEN DuplicateKeyError(i)
            ELSE IF PageV2Validate(p) # "" THEN PageError(i, PageV2Validate(p))
            ELSE PagesV2Loop(ps, i + 1, keys \cup {p.Key})

\* PagesV1.Validate testing the uniqueness of the keys over the whole
\* collection before it validates any descriptor
PagesV1ValidateTwoPass(ps) ==
    LET dup == {j \in 1..Len(ps) : \E i \in 1..(j - 1) : ps[i].Key = ps[j].Key}
        bad == {j \in 1..Len(ps) : PageV1Validate(ps[j]) # ""}
        first(S) == CHOOSE x \in S : \A y \in S : x <= y
    IN IF dup # {} THEN DuplicateKeyError(first(dup) - 1)
       ELSE IF bad # {} THEN PageError(first(bad) - 1, PageV1Validate(ps[first(bad)]))
       ELSE NoError

\* PagesV1.Validate, and PagesV2.Validate over []PageV2 with embedded PageV1
PagesV1Validate(ps) == PagesV1Loop(ps, 0, {})

\* PagesV2.Validate of src/v2.go over the wrapped []PageV2
PagesV2Validate(ps) == PagesV2Loop(ps, 0, {})

(***************************************************************************)
(* Community rating                                                        *)
(***************************************************************************)
\* float64 comparisons v < b, v > b, v >= b and v <= b of a present rating
\* with a bound in thousandths: every ordered comparison with NaN is false
Less(v, b) == ~IsNaN(v) /\ v[1] < b

Greater(v, b) == ~IsNaN(v) /\ v[1] > b

AtLeast(v, b) == ~IsNaN(v) /\ v[1] >= b

AtMost(v, b) == ~IsNaN(v) /\ v[1] <= b

Abs(x) == IF x < 0 THEN -x ELSE x

\* math.Round(n / d) for d > 0: nearest integer, halves away from zero
Round(n, d) ==
    IF n >= 0 THEN (2 * n + d) \div (2 * d) ELSE -((2 * (-n) + d) \div (2 * d))

\* math.Abs(v - math.Round(v*100)/100) > 0.01 for a present rating v; the
\* distance of NaN is NaN and the comparison false
Exceeds2Digits(v) ==
    /\ ~IsNaN(v)
    /\ Abs(v[1] - Round(v[1] * 100, Milli) * (Milli \div 100)) > Milli \div 100

\* math.Abs(v - math.Round(v*10)/10) > 0.1 for a present rating v
Exceeds1Digit(v) ==
    /\ ~IsNaN(v)
    /\ Abs(v[1] - Round(v[1] * 10, Milli) * (Milli \div 10)) > Milli \div 10

\* (*CommunityRating).IsValid taking the absent rating for an invalid one
CommunityRatingIsValidNilInvalid(cr) ==
    /\ cr # Nil
    /\ ~Less(cr, 0)
    /\ ~Greater(cr, 5 * Milli)
    /\ ~Exceeds2Digits(cr)

\* (*CommunityRating).IsValid, src/v2.go
CommunityRatingIsValid(cr) ==
    IF cr = Nil THEN TRUE
    ELSE IF Less(cr, 0) THEN FALSE
    ELSE IF Greater(cr, 5 * Milli) THEN FALSE
    ELSE IF Exceeds2Digits(cr) THEN FALSE
    ELSE TRUE

\* isV2CommunityRatingValid, src/v1.go:390
isV2CommunityRatingValid(value) ==
    IF value = Nil THEN TRUE
    ELSE IF Less(value, 0) THEN FALSE
    ELSE IF Greater(value, 5 * Milli) THEN FALSE
    ELSE IF Exceeds2Digits(value) THEN FALSE
    ELSE TRUE

\* isV2CommunityRatingValid, src/unnamed/part_003:180 (range only)
isV2CommunityRatingValidRange(value) ==
    IF value = Nil THEN TRUE
    ELSE AtLeast(value, 0) /\ AtMost(value, 5 * Milli)

\* isV21CommunityRatingValid, src/v2.1.go
isV21CommunityRatingValid(value) ==
    IF value = Nil THEN TRUE
    ELSE IF Less(value, 0) THEN FALSE
    ELSE IF Greater(value, 5 * Milli) THEN FALSE
    ELSE IF Exceeds1Digit(value) THEN FALSE
    ELSE TRUE

\* (*CommunityRatingV21).IsValid, src/unnamed/part_000
CommunityRatingV21IsValid(cr) ==
    IF cr = Nil THEN TRUE
    ELSE IF Less(cr, 0) THEN FALSE
    ELSE IF Greater(cr, 5 * Milli) THEN FALSE
    ELSE IF Exceeds1Digit(cr) THEN FALSE
    ELSE TRUE

(***************************************************************************)
(* Validate, one operator per shape of the document record                 *)
(***************************************************************************)
Fail(kind, log) == Result(Error(kind, 0, ""), log)

\* return fmt.Errorf("failed to validate CommunityRating: invalid value %f",
\* *ci.CommunityRating): the argument dereferences the rating, and on a nil
\* pointer the call panics instead of returning the rating error
RatingError(value, log) ==
    IF value = Nil
    THEN Result(Error("panic", 0, "nil pointer dereference"), log)
    ELSE Fail("CommunityRating", log)

\* rules of ComicInfov1.Validate after the language rule
ComicInfov1ValidateTail(d, log) ==
    IF ~isV1YesNoValid(d.BlackAndWhite) THEN Fail("BlackAndWhite", log)
    ELSE IF ~isV2MangaValid(d.Manga) THEN Fail("Manga", log)
    ELSE Result(PagesV1Validate(d.PagesV1), log)

\* ComicInfov1.Validate, src/v1.go:90; the URL loop ranges over ci.Language
ComicInfov1Validate(d) ==
    LET u == ValidateURLs(d.Language, <<>>)
    IN IF u.err # NoError THEN u
       ELSE LET l == ValidateLanguage(d.Language, u.calls)
            IN IF l.err # NoError THEN l
               ELSE ComicInfov1ValidateTail(d, l.calls)

\* ComicInfov2.Validate of src/v1.go:325 testing the legacy pages after the
\* AgeRating
ComicInfov2ValidateEmbeddedLegacyLater(d) ==
    LET v1 == ComicInfov1Validate(d)
    IN IF v1.err # NoError THEN v1
       ELSE IF ~isV2AgeRatingValid(d.AgeRating) THEN Fail("AgeRating", v1.calls)
       ELSE IF Len(d.PagesV1) > 0 THEN Fail("PagesV1Set", v1.calls)
       ELSE IF PagesV1Validate(d.Pages) # NoError
            THEN Result(PagesV1Validate(d.Pages), v1.calls)
       ELSE IF ~isV2CommunityRatingValid(d.CommunityRating)
            THEN RatingError(d.CommunityRating, v1.calls)
       ELSE Result(NoError, v1.calls)

\* ComicInfov2.Validate, src/v1.go:325 (ComicInfov2 embeds ComicInfov1)
ComicInfov2ValidateEmbedded(d) ==
    LET v1 == ComicInfov1Validate(d)
    IN IF v1.err # NoError THEN v1
       ELSE IF Len(d.PagesV1) > 0 THEN Fail("PagesV1Set", v1.calls)
       ELSE IF ~isV2AgeRatingValid(d.AgeRating) THEN Fail("AgeRating", v1.calls)
       ELSE IF PagesV1Validate(d.Pages) # NoError
            THEN Result(PagesV1Validate(d.Pages), v1.calls)
       ELSE IF ~isV2CommunityRatingValid(d.CommunityRating)
            THEN RatingError(d.CommunityRating, v1.calls)
       ELSE Result(NoError, v1.calls)

\* rules of the flat string-typed ComicInfov2.Validate after the language rule
ComicInfov2ValidateLegacyTail(d, log) ==
    IF ~isV1YesNoValid(d.BlackAndWhite) THEN Fail("BlackAndWhite", log)
    ELSE IF ~isV2MangaValid(d.Manga) THEN Fail("Manga", log)
    ELSE IF ~isV2AgeRatingValid(d.AgeRating) THEN Fail("AgeRating", log)
    ELSE IF PagesV1Validate(d.Pages) # NoError
         THEN Result(PagesV1Validate(d.Pages), log)
    ELSE IF ~isV2CommunityRatingValidRange(d.CommunityRating)
         THEN RatingError(d.CommunityRating, log)
    ELSE Result(NoError, log)

\* ComicInfov2.Validate, src/unnamed/part_003:102; the URL loop ranges over
\* ci.Language
ComicInfov2ValidateLegacy(d) ==
    LET u == ValidateURLs(d.Language, <<>>)
    IN IF u.err # NoError THEN u
       ELSE LET l == ValidateLanguage(d.Language, u.calls)
            IN IF l.err # NoError THEN l
               ELSE ComicInfov2ValidateLegacyTail(d, l.calls)

\* rules of ComicInfov2.Validate (src/v2.go) after the language rule
ComicInfov2ValidateTail(d, log) ==
    IF ~YesNoIsValid(d.BlackAndWhite) THEN Fail("BlackAndWhite", log)
    ELSE IF ~MangaIsValid(d.Manga) THEN Fail("Manga", log)
    ELSE IF ~AgeRatingIsValid(d.AgeRating) THEN Fail("AgeRating", log)
    ELSE IF PagesV2Validate(d.Pages) # NoError
         THEN Result(PagesV2Validate(d.Pages), log)
    ELSE IF ~CommunityRatingIsValid(d.CommunityRating)
         THEN RatingError(d.CommunityRating, log)
    ELSE Result(NoError, log)

\* ComicInfov2.Validate, src/v2.go:103
ComicInfov2Validate(d) ==
    LET u == ValidateURLs(d.Web, <<>>)
    IN IF u.err # NoError THEN u
       ELSE LET l == ValidateLanguage(d.Language, u.calls)
            IN IF l.err # NoError THEN l
               ELSE ComicInfov2ValidateTail(d, l.calls)

\* ComicInfov21.Validate of src/v2.1.go:64 testing its own rating before
\* the inherited record
ComicInfov21ValidateEmbeddedOwnFirst(d) ==
    IF ~isV21CommunityRatingValid(d.CommunityRating21)
    THEN RatingError(d.CommunityRating21, <<>>)
    ELSE ComicInfov2ValidateEmbedded(d)

\* ComicInfov21.Validate, src/v2.1.go:64 (ComicInfov21 embeds ComicInfov2);
\* the re-declared ci.Pages (Pages21) is not looked at
ComicInfov21ValidateEmbedded(d) ==
    LET v2 == ComicInfov2ValidateEmbedded(d)
    IN IF v2.err # NoError THEN v2
       ELSE IF ~isV21CommunityRatingValid(d.CommunityRating21)
            THEN RatingError(d.CommunityRating21, v2.calls)
       ELSE Result(NoError, v2.calls)

\* rules of the flat ComicInfov21.Validate after the language rule
ComicInfov21ValidateTail(d, log) ==
    IF ~YesNoIsValid(d.BlackAndWhite) THEN Fail("BlackAndWhite", log)
    ELSE IF ~MangaIsValid(d.Manga) THEN Fail("Manga", log)
    ELSE IF ~AgeRatingIsValid(d.AgeRating) THEN Fail("AgeRating", log)
    ELSE IF PagesV2Validate(d.Pages) # NoError
         THEN Result(PagesV2Validate(d.Pages), log)
    ELSE IF ~CommunityRatingV21IsValid(d.CommunityRating)
         THEN RatingError(d.CommunityRating, log)
    ELSE Result(NoError, log)

\* ComicInfov21.Validate, src/unnamed/part_000:107
ComicInfov21Validate(d) ==
    LET u == ValidateURLs(d.Web, <<>>)
    IN IF u.err # NoError THEN u
       ELSE LET l == ValidateLanguage(d.Language, u.calls)
            IN IF l.err # NoError THEN l
               ELSE ComicInfov21ValidateTail(d, l.calls)

\* ci.Validate() on a document of the given shape
ValidateOf(sh, d) ==
    CASE sh = "v1"   -> ComicInfov1Validate(d)
      [] sh = "v2e"  -> ComicInfov2ValidateEmbedded(d)
      [] sh = "v2l"  -> ComicInfov2ValidateLegacy(d)
      [] sh = "v2"   -> ComicInfov2Validate(d)
      [] sh = "v21e" -> ComicInfov21ValidateEmbedded(d)
      [] sh = "v21"  -> ComicInfov21Validate(d)

(***************************************************************************)
(* Serialization.  The root element is modelled by its name, its two       *)
(* injected attributes and the validated fields it carries.                *)
(***************************************************************************)
xmlnsxni == "http://www.w3.org/2001/XMLSchema-instance"

v1SchemaLocationURL == "https://github.com/anansi-project/comicinfo/raw/refs/heads/main/schema/v1.0/ComicInfo.xsd"

v2SchemaLocationURL == "https://raw.githubusercontent.com/anansi-project/comicinfo/refs/heads/main/schema/v2.0/ComicInfo.xsd"

v21SchemaLocationURL == "https://github.com/anansi-project/comicinfo/raw/refs/heads/main/drafts/v2.1/ComicInfo.xsd"

\* the element name encoding/xml derives from the Go type handed to Encode
TypeName(sh) ==
    CASE sh = "v1" -> "ComicInfov1"
      [] sh \in {"v2e", "v2l", "v2"} -> "ComicInfov2"
      [] sh \in {"v21e", "v21"} -> "ComicInfov21"

\* encoding/xml isEmptyValue: a string or a slice is empty when its length
\* is 0, a pointer when it is nil; a struct value is never empty
isEmptyValue(kind, v) ==
    CASE kind = "chars"  -> Len(v) = 0
      [] kind = "string" -> v = ""
      [] kind = "slice"  -> Len(v) = 0
      [] kind = "ptr"    -> v = Nil
      [] kind = "struct" -> FALSE

RECURSIVE ChildrenFrom(_, _)
ChildrenFrom(fields, i) ==
    IF i > Len(fields) THEN <<>>
    ELSE IF isEmptyValue(fields[i][2], fields[i][3])
         THEN ChildrenFrom(fields, i + 1)
         ELSE <<fields[i][1]>> \o ChildrenFrom(fields, i + 1)

\* the names of the child elements written for the fields of a record, all
\* tagged omitempty, in declaration order; fields is a sequence of
\* <<element name, Go kind, value>>
Children(fields) == ChildrenFrom(fields, 1)

\* ComicInfov1.MarshalXML, src/v1.go:75: the fields of the ComicInfov1 record
ComicInfov1MarshalXML(d, start) ==
    [name |-> start, xsi |-> xmlnsxni, schemaLocation |-> v1SchemaLocationURL,
     children |-> Children(<<<<"Web", "chars", d.Web>>,
                             <<"LanguageISO", "chars", d.Language>>,
                             <<"BlackAndWhite", "string", d.BlackAndWhite>>,
                             <<"Manga", "string", d.Manga>>,
                             <<"Pages", "slice", d.PagesV1>>>>),
     Web |-> d.Web, Language |-> d.Language,
     BlackAndWhite |-> d.BlackAndWhite, Manga |-> d.Manga,
     AgeRating |-> "", Pages |-> d.PagesV1, CommunityRating |-> Nil]

\* ComicInfov2.MarshalXML, src/v1.go:310.  Mask keeps the embedded
\* ComicInfov1, so attr gets ComicInfov1.MarshalXML promoted and
\* encoding/xml, which asks for a Marshaler first, calls it on the embedded
\* record.
ComicInfov2MarshalXMLEmbedded(d, start) == ComicInfov1MarshalXML(d, start)

\* ComicInfov2.MarshalXML, src/unnamed/part_003:87; PagesV2 is a slice
ComicInfov2MarshalXMLLegacy(d, start) ==
    [name |-> start, xsi |-> xmlnsxni, schemaLocation |-> v2SchemaLocationURL,
     children |-> Children(<<<<"Web", "chars", d.Web>>,
                             <<"LanguageISO", "chars", d.Language>>,
                             <<"BlackAndWhite", "string", d.BlackAndWhite>>,
                             <<"Manga", "string", d.Manga>>,
                             <<"AgeRating", "string", d.AgeRating>>,
                             <<"Pages", "slice", d.Pages>>,
                             <<"CommunityRating", "ptr", d.CommunityRating>>>>),
     Web |-> d.Web, Language |-> d.Language,
     BlackAndWhite |-> d.BlackAndWhite, Manga |-> d.Manga,
     AgeRating |-> d.AgeRating, Pages |-> d.Pages,
     CommunityRating |-> d.CommunityRating]

\* ComicInfov2.MarshalXML, src/v2.go:87: start.Name.Local = "ComicInfo";
\* PagesV2 is a struct wrapping the slice
ComicInfov2MarshalXML(d, start) ==
    [name |-> "ComicInfo", xsi |-> xmlnsxni, schemaLocation |-> v2SchemaLocationURL,
     children |-> Children(<<<<"Web", "chars", d.Web>>,
                             <<"LanguageISO", "chars", d.Language>>,
                             <<"BlackAndWhite", "string", d.BlackAndWhite>>,
                             <<"Manga", "string", d.Manga>>,
                             <<"AgeRating", "string", d.AgeRating>>,
                             <<"Pages", "struct", d.Pages>>,
                             <<"CommunityRating", "ptr", d.CommunityRating>>>>),
     Web |-> d.Web, Language |-> d.Language,
     BlackAndWhite |-> d.BlackAndWhite, Manga |-> d.Manga,
     AgeRating |-> d.AgeRating, Pages |-> d.Pages,
     CommunityRating |-> d.CommunityRating]

\* ComicInfov21.MarshalXML, src/v2.1.go:49.  Mask keeps the embedded
\* ComicInfov2, whose promoted MarshalXML is the one encoding/xml calls.
ComicInfov21MarshalXMLEmbedded(d, start) == ComicInfov2MarshalXMLEmbedded(d, start)

\* ComicInfov21.MarshalXML, src/unnamed/part_000:92; PagesV2 is the struct
\* of src/v2.go
ComicInfov21MarshalXML(d, start) ==
    [name |-> start, xsi |-> xmlnsxni, schemaLocation |-> v21SchemaLocationURL,
     children |-> Children(<<<<"Web", "chars", d.Web>>,
                             <<"LanguageISO", "chars", d.Language>>,
                             <<"BlackAndWhite", "string", d.BlackAndWhite>>,
                             <<"Manga", "string", d.Manga>>,
                             <<"AgeRating", "string", d.AgeRating>>,
                             <<"Pages", "struct", d.Pages>>,
                             <<"CommunityRating", "ptr", d.CommunityRating>>>>),
     Web |-> d.Web, Language |-> d.Language,
     BlackAndWhite |-> d.BlackAndWhite, Manga |-> d.Manga,
     AgeRating |-> d.AgeRating, Pages |-> d.Pages,
     CommunityRating |-> d.CommunityRating]

\* encoder.Encode(ci): the root element written for a document
MarshalXMLOf(sh, d) ==
    CASE sh = "v1"   -> ComicInfov1MarshalXML(d, TypeName(sh))
      [] sh = "v2e"  -> ComicInfov2MarshalXMLEmbedded(d, TypeName(sh))
      [] sh = "v2l"  -> ComicInfov2MarshalXMLLegacy(d, TypeName(sh))
      [] sh = "v2"   -> ComicInfov2MarshalXML(d, TypeName(sh))
      [] sh = "v21e" -> ComicInfov21MarshalXMLEmbedded(d, TypeName(sh))
      [] sh = "v21"  -> ComicInfov21MarshalXML(d, TypeName(sh))

(***************************************************************************)
(* Documents the caller can build                                          *)
(***************************************************************************)
FieldNames ==
    {"Web", "Language", "BlackAndWhite", "Manga", "PagesV1", "AgeRating",
     "Pages", "CommunityRating", "Pages21", "CommunityRating21"}

\* the fields each shape of the record declares (embedded ones included)
FieldsOf(sh) ==
    CASE sh = "v1" -> {"Web", "Language", "BlackAndWhite", "Manga", "PagesV1"}
      [] sh = "v2e" -> {"Web", "Language", "BlackAndWhite", "Manga", "PagesV1",
                        "AgeRating", "Pages", "CommunityRating"}
      [] sh \in {"v2l", "v2", "v21"} ->
                       {"Web", "Language", "BlackAndWhite", "Manga",
                        "AgeRating", "Pages", "CommunityRating"}
      [] sh = "v21e" -> FieldNames

\* the zero value of every field
Zero ==
    [Web |-> <<>>, Language |-> <<>>, BlackAndWhite |-> "", Manga |-> "",
     PagesV1 |-> <<>>, AgeRating |-> "", Pages |-> <<>>,
     CommunityRating |-> Nil, Pages21 |-> <<>>, CommunityRating21 |-> Nil]

Page(key, type, width, height) ==
    [Image |-> 0, Type |-> type, Key |-> key,
     ImageWidth |-> width, ImageHeight |-> height]

\* the values field f ranges over in a document of shape sh
Dom(sh, dom, f) == IF f \in FieldsOf(sh) THEN dom[f] ELSE {Zero[f]}

NumSet(d) == Cardinality({f \in FieldNames : d[f] # Zero[f]})

\* documents of shape sh with fields drawn from dom, at most n of them set
Docs(sh, dom, n) ==
    {d \in [Web : Dom(sh, dom, "Web"), Language : Dom(sh, dom, "Language"),
            BlackAndWhite : Dom(sh, dom, "BlackAndWhite"),
            Manga : Dom(sh, dom, "Manga"), PagesV1 : Dom(sh, dom, "PagesV1"),
            AgeRating : Dom(sh, dom, "AgeRating"), Pages : Dom(sh, dom, "Pages"),
            CommunityRating : Dom(sh, dom, "CommunityRating"),
            Pages21 : Dom(sh, dom, "Pages21"),
            CommunityRating21 : Dom(sh, dom, "CommunityRating21")] :
        NumSet(d) <= n}

\* every field at its zero value only
ZeroDom == [f \in FieldNames |-> {Zero[f]}]

SamplePages ==
    {<<>>,
     <<Page("p001", "Story", 1, 1)>>,
     <<Page("p001", "Story", 1, 1), Page("p002", "Story", -1, -1)>>,
     <<Page("p001", "Story", 1, 1), Page("p001", "Story", 1, 1)>>,
     <<Page("p001", "Bogus", 1, 1)>>}

SampleRatings == {Nil, <<4570>>, <<4567>>, <<7000>>}

SampleDom ==
    [Web |-> {<<>>, <<"n">>, <<"n", " ", "%">>},
     Language |-> {<<>>, <<"n", "n">>, <<"n">>, <<"%">>},
     BlackAndWhite |-> {"", "Yes", "Maybe"},
     Manga |-> {"", "YesAndRightToLeft", "Maybe"},
     PagesV1 |-> {<<>>, <<Page("p001", "Story", 1, 1)>>},
     AgeRating |-> {"", "Teen", "Bogus"},
     Pages |-> SamplePages,
     CommunityRating |-> SampleRatings,
     Pages21 |-> SamplePages,
     CommunityRating21 |-> SampleRatings]

(***************************************************************************)
(* State machine: one caller, one document, Validate and Encode calls made *)
(* one after the other                                                     *)
(***************************************************************************)
\* no call made yet
InitCall ==
    /\ pc = "idle"
    /\ output = "none"
    /\ sink = <<>>
    /\ root = <<>>
    /\ err = NoError
    /\ calls = <<>>
    /\ done = <<>>

\* one goroutine only
InitAlone ==
    /\ InitCall
    /\ parked = <<>>

InitWith(dom, n) ==
    /\ shape \in Shapes
    /\ ci \in Docs(shape, dom, n)
    /\ InitAlone
    /\ left = 1

Init == InitWith(SampleDom, MaxSet)

\* positions of the caller between two calls
Returned == {"ValidateReturned", "EncodeReturned", "Done"}

\* what the call that has just returned did
Outcome ==
    [op |-> IF pc = "ValidateReturned" THEN "Validate" ELSE "Encode",
     output |-> output, pc |-> pc, err |-> err, sink |-> sink, root |-> root]

\* the caller makes its next call: the previous outcome is kept in done
NewCall ==
    /\ pc \in Returned \cup {"idle"}
    /\ left > 0
    /\ left' = left - 1
    /\ done' = IF pc \in Returned THEN Append(done, Outcome) ELSE done

\* Validate clearing a field of the caller's document
ValidateNormalising ==
    /\ NewCall
    /\ err' = ValidateOf(shape, ci).err
    /\ calls' = ValidateOf(shape, ci).calls
    /\ pc' = "ValidateReturned"
    /\ output' = "none"
    /\ sink' = <<>>
    /\ root' = <<>>
    /\ ci' = [ci EXCEPT !.Manga = ""]
    /\ UNCHANGED <<shape, parked>>

\* the caller invokes ci.Validate(); the receiver is a copy of the document
Validate ==
    /\ NewCall
    /\ err' = ValidateOf(shape, ci).err
    /\ calls' = ValidateOf(shape, ci).calls
    /\ pc' = "ValidateReturned"
    /\ output' = "none"
    /\ sink' = <<>>
    /\ root' = <<>>
    /\ UNCHANGED <<shape, ci, parked>>

\* Encode validating the document before it looks at the sink
EncodeNilAfterValidate ==
    /\ NewCall
    /\ output' = "nil"
    /\ err' = IF ValidateOf(shape, ci).err # NoError
              THEN Wrap("validation failed", ValidateOf(shape, ci).err)
              ELSE Error("output nil", 0, "")
    /\ pc' = "EncodeReturned"
    /\ sink' = <<>>
    /\ root' = <<>>
    /\ calls' = ValidateOf(shape, ci).calls
    /\ UNCHANGED <<shape, ci, parked>>

\* ci.Encode(output): if output == nil { return errors.New(...) }
EncodeNil ==
    /\ NewCall
    /\ output' = "nil"
    /\ err' = Error("output nil", 0, "")
    /\ pc' = "EncodeReturned"
    /\ sink' = <<>>
    /\ root' = <<>>
    /\ calls' = <<>>
    /\ UNCHANGED <<shape, ci, parked>>

\* ci.Encode(output) with a writer: the machine starts in Unvalidated
EncodeStart ==
    /\ NewCall
    /\ output' = "writer"
    /\ pc' = "Unvalidated"
    /\ sink' = <<>>
    /\ root' = <<>>
    /\ err' = NoError
    /\ calls' = <<>>
    /\ UNCHANGED <<shape, ci, parked>>

\* EncodeValidate with the header written before the document is validated
EncodeValidateAfterHeader ==
    /\ pc = "Unvalidated"
    /\ calls' = ValidateOf(shape, ci).calls
    /\ sink' = Append(sink, "header")
    /\ IF ValidateOf(shape, ci).err # NoError
       THEN /\ err' = Wrap("validation failed", ValidateOf(shape, ci).err)
            /\ pc' = "EncodeReturned"
       ELSE /\ err' = NoError
            /\ pc' = "HeaderWritten"
    /\ UNCHANGED <<shape, ci, output, root, done, left, parked>>

\* if err = ci.Validate(); err != nil { return "validation failed: %w" }
EncodeValidate ==
    /\ pc = "Unvalidated"
    /\ calls' = ValidateOf(shape, ci).calls
    /\ IF ValidateOf(shape, ci).err # NoError
       THEN /\ err' = Wrap("validation failed", ValidateOf(shape, ci).err)
            /\ pc' = "EncodeReturned"
       ELSE /\ err' = NoError
            /\ pc' = "Validated"
    /\ UNCHANGED <<shape, ci, output, sink, root, done, left, parked>>

\* the header write with its error dropped
EncodeWriteHeaderUnchecked ==
    /\ pc = "Validated"
    /\ \E ok \in BOOLEAN :
         /\ sink' = IF ok THEN Append(sink, "header") ELSE sink
         /\ pc' = "HeaderWritten"
         /\ err' = NoError
    /\ UNCHANGED <<shape, ci, output, root, calls, done, left, parked>>

\* output.Write([]byte(xml.Header)): the writer accepts or fails
EncodeWriteHeader ==
    /\ pc = "Validated"
    /\ \E ok \in BOOLEAN :
         IF ok
         THEN /\ sink' = Append(sink, "header")
              /\ pc' = "HeaderWritten"
              /\ err' = NoError
         ELSE /\ sink' = sink
              /\ pc' = "EncodeReturned"
              /\ err' = Error("write header", 0, "")
    /\ UNCHANGED <<shape, ci, output, root, calls, done, left, parked>>

\* the body written under a root name that counts the calls made before
EncodeBodyCounted ==
    /\ pc = "HeaderWritten"
    /\ \E outcome \in {"ok", "fail", "partial"} :
         IF outcome = "ok"
         THEN /\ sink' = Append(sink, "body")
              /\ root' = <<[MarshalXMLOf(shape, ci) EXCEPT
                              !.name = IF done = <<>> THEN @ ELSE "ComicInfo2"]>>
              /\ pc' = "Done"
              /\ err' = NoError
         ELSE /\ sink' = IF outcome = "partial" THEN Append(sink, "partial") ELSE sink
              /\ root' = root
              /\ pc' = "EncodeReturned"
              /\ err' = Error("encode", 0, "")
    /\ UNCHANGED <<shape, ci, output, calls, done, left, parked>>

\* encoder.Encode(ci): on a writer failure part of the body may be out
EncodeBody ==
    /\ pc = "HeaderWritten"
    /\ \E outcome \in {"ok", "fail", "partial"} :
         IF outcome = "ok"
         THEN /\ sink' = Append(sink, "body")
              /\ root' = <<MarshalXMLOf(shape, ci)>>
              /\ pc' = "Done"
              /\ err' = NoError
         ELSE /\ sink' = IF outcome = "partial" THEN Append(sink, "partial") ELSE sink
              /\ root' = root
              /\ pc' = "EncodeReturned"
              /\ err' = Error("encode", 0, "")
    /\ UNCHANGED <<shape, ci, output, calls, done, left, parked>>

Next ==
    \/ Validate
    \/ EncodeNil
    \/ EncodeStart
    \/ EncodeValidate
    \/ EncodeWriteHeader
    \/ EncodeBody

Spec == Init /\ [][Next]_vars

\* the caller makes MaxCalls calls on the same document
InitTwice ==
    /\ shape \in Shapes
    /\ ci \in Docs(shape, SampleDom, MaxSet)
    /\ InitAlone
    /\ left = MaxCalls

SpecTwice == InitTwice /\ [][Next]_vars

\* the state of the goroutine that is running, as one value
Running ==
    [shape |-> shape, ci |-> ci, pc |-> pc, output |-> output, sink |-> sink,
     root |-> root, err |-> err, calls |-> calls, done |-> done, left |-> left]

\* a goroutine that has made no call yet on its own document
Goroutine(sh, d, n) ==
    [shape |-> sh, ci |-> d, pc |-> "idle", output |-> "none", sink |-> <<>>,
     root |-> <<>>, err |-> NoError, calls |-> <<>>, done |-> <<>>, left |-> n]

\* Switch with the sink left in place, as if both goroutines wrote to one
\* package-level writer
SwitchSharedSink ==
    /\ Len(parked) = 1
    /\ parked' = <<Running>>
    /\ shape' = parked[1].shape
    /\ ci' = parked[1].ci
    /\ pc' = parked[1].pc
    /\ output' = parked[1].output
    /\ sink' = sink
    /\ root' = parked[1].root
    /\ err' = parked[1].err
    /\ calls' = parked[1].calls
    /\ done' = parked[1].done
    /\ left' = parked[1].left

\* the scheduler stops the running goroutine between two statements of
\* Encode or Validate and resumes the other one; every value a call works
\* on is a local or the receiver copy and goes with its goroutine
Switch ==
    /\ Len(parked) = 1
    /\ parked' = <<Running>>
    /\ shape' = parked[1].shape
    /\ ci' = parked[1].ci
    /\ pc' = parked[1].pc
    /\ output' = parked[1].output
    /\ sink' = parked[1].sink
    /\ root' = parked[1].root
    /\ err' = parked[1].err
    /\ calls' = parked[1].calls
    /\ done' = parked[1].done
    /\ left' = parked[1].left

NextConcurrent ==
    \/ Next
    \/ Switch

\* the documents of the second goroutine: a valid Revision 2 document with
\* pages and a rating, an all-zero Revision 2.1 document and a Revision 1
\* document with a language tag the oracle rejects
PeerDocuments ==
    {<<"v2", [Zero EXCEPT !.Pages = <<Page("p001", "Story", 1, 1),
                                       Page("p002", "Story", -1, -1)>>,
                          !.CommunityRating = <<4570>>]>>,
     <<"v21", Zero>>,
     <<"v1", [Zero EXCEPT !.Language = <<"%">>]>>}

\* two goroutines, each about to make one call on a document of its own
InitConcurrent ==
    /\ shape \in Shapes
    /\ ci \in Docs(shape, SampleDom, MaxSetConcurrent)
    /\ InitCall
    /\ left = 1
    /\ \E p \in PeerDocuments : parked = <<Goroutine(p[1], p[2], 1)>>

SpecConcurrent == InitConcurrent /\ [][NextConcurrent]_vars

\* all strings over Chars of length at most n
Strs(n) == UNION {[1..k -> Chars] : k \in 0..n}

\* documents in which only Web and Language are set, to any short string
WebDom == [ZeroDom EXCEPT !.Web = Strs(MaxStrLen), !.Language = Strs(MaxStrLen)]

InitWeb == InitWith(WebDom, Cardinality(FieldNames))

SpecWeb == InitWeb /\ [][Next]_vars

\* ratings in thousandths: below, at and above the range ends, and with
\* one, two and three decimal digits; the absent rating and NaN
RatingInputs ==
    {Nil, NaN} \cup {<<r>> : r \in {-1000, -1, 0, 1, 4500, 4550, 4555, 4567, 4570,
                                   5000, 5001, 7000}}

\* documents in which only the community rating fields are set
RatingDom ==
    [ZeroDom EXCEPT !.CommunityRating = RatingInputs,
                    !.CommunityRating21 = RatingInputs]

InitRating == InitWith(RatingDom, Cardinality(FieldNames))

SpecRating == InitRating /\ [][Next]_vars

\* descriptors: three keys (the empty key included), each with a valid
\* descriptor, an empty role, an unknown role, a bad width, a bad height
\* and a negative image index; two descriptors with two defects each (an
\* unknown role with a bad width, a bad width with a bad height)
PageInputs ==
    {Page(k, v[1], v[2], v[3]) :
        k \in {"", "p001", "p002"},
        v \in {<<"Story", 1, -1>>, <<"", 1, 1>>, <<"Bogus", -1, 1>>,
               <<"Story", 0, 1>>, <<"Story", 1, -2>>}}
    \cup {[Page(k, "FrontCover", 2, 2) EXCEPT !.Image = -1] : k \in {"", "p001", "p002"}}
    \cup {Page("p001", "Bogus", 0, 1), Page("p002", "Story", 0, -2)}

\* all page collections of at most n descriptors
PageLists(n) == UNION {[1..k -> PageInputs] : k \in 0..n}

\* documents in which only the page collection validated by the shape's
\* own Validate is set: ComicInfov1.Pages in Revision 1, ComicInfov2.Pages
\* or the flat ComicInfov21.Pages otherwise
PagesDom(sh) ==
    IF sh = "v1"
    THEN [ZeroDom EXCEPT !.PagesV1 = PageLists(MaxPages)]
    ELSE [ZeroDom EXCEPT !.Pages = PageLists(MaxPages)]

InitPages ==
    /\ shape \in Shapes
    /\ ci \in Docs(shape, PagesDom(shape), Cardinality(FieldNames))
    /\ InitAlone
    /\ left = 1

SpecPages == InitPages /\ [][Next]_vars

\* strings tried for the enumerated fields: every token of the three
\* vocabularies, the empty string and strings outside every vocabulary
EnumInputs ==
    YesNoTokens \cup MangaTokens \cup AgeRatingTokens
        \cup {"", "Maybe", "yes", "Bogus"}

\* documents in which only the enumerated fields are set
EnumDom ==
    [ZeroDom EXCEPT !.BlackAndWhite = YesNoTokens \cup {"", "Maybe", "yes", "YesAndRightToLeft"},
                    !.Manga = MangaTokens \cup {"", "Maybe", "yes", "Teen"},
                    !.AgeRating = EnumInputs]

InitEnum == InitWith(EnumDom, Cardinality(FieldNames))

SpecEnum == InitEnum /\ [][Next]_vars

(***************************************************************************)
(* Claims                                                                  *)
(***************************************************************************)

\* C1: for every revision, when Validate returns an error on the document,
\* Encode called with a non-nil sink never gets past validation: it returns
\* an error and the sink holds no byte (no declaration, no body).
C1_NoBytesOnValidationFailure ==
    (output = "writer" /\ ValidateOf(shape, ci).err # NoError) =>
        /\ sink = <<>>
        /\ root = <<>>
        /\ pc \in {"Unvalidated", "EncodeReturned"}
        /\ (pc = "EncodeReturned" => err # NoError)

\* an Encode call that returned the wrapped validation error
C1_Witness ==
    /\ output = "writer"
    /\ pc = "EncodeReturned"
    /\ err.ctx = "validation failed"
    /\ ValidateOf(shape, ci).err # NoError

(***************************************************************************)
(* The validation rules as the specification states them, independent of   *)
(* the Validate code above.                                                *)
(***************************************************************************)
\* positions (1-based) of the Web tokens the URL oracle rejects
RejectedTokens(web) == {i \in 1..Len(Split(web)) : ~urlParse(Split(web)[i])}

Min(S) == CHOOSE x \in S : \A y \in S : x <= y

WebRule(d) == RejectedTokens(d.Web) = {}

LanguageRule(d) == d.Language = <<>> \/ languageParse(d.Language)

DimensionRule(n) == n > 0 \/ n = -1

DistinctKeys(ps) == \A i, j \in 1..Len(ps) : i # j => ps[i].Key # ps[j].Key

DescriptorRule(p) ==
    /\ p.Type \in PageTypeTokens \cup {""}
    /\ DimensionRule(p.ImageWidth)
    /\ DimensionRule(p.ImageHeight)

PagesRule(ps) == DistinctKeys(ps) /\ \A i \in 1..Len(ps) : DescriptorRule(ps[i])

\* in [0.0, 5.0] with at most two decimal digits
RatingRule(r) ==
    \/ r = Nil
    \/ (~IsNaN(r) /\ r[1] >= 0 /\ r[1] <= 5 * Milli /\ r[1] % (Milli \div 100) = 0)

\* the Pages / CommunityRating field the record of a shape declares itself
\* (the outermost declaration of the name)
DeclaredPages(sh, d) ==
    CASE sh = "v1" -> d.PagesV1
      [] sh = "v21e" -> d.Pages21
      [] OTHER -> d.Pages

DeclaredRating(sh, d) == IF sh = "v21e" THEN d.CommunityRating21 ELSE d.CommunityRating

WellFormed(sh, d) ==
    /\ WebRule(d)
    /\ LanguageRule(d)
    /\ d.BlackAndWhite \in YesNoTokens \cup {""}
    /\ d.Manga \in MangaTokens \cup {""}
    /\ PagesRule(DeclaredPages(sh, d))
    /\ sh # "v1" => (d.AgeRating \in AgeRatingTokens \cup {""}
                      /\ RatingRule(DeclaredRating(sh, d)))

\* C2: whenever Encode returns success the serialized document satisfies
\* every validation rule of its revision, and the page collection emitted
\* under the root element has pairwise distinct keys and valid descriptors.
\* The code violates it: see C3 (Web is not checked in the ComicInfov1 chain)
\* and C4 (the precision test of the rating never fails).
C2_EncodedDocumentWellFormed ==
    pc = "Done" => (WellFormed(shape, ci) /\ PagesRule(root[1].Pages))

\* C3: in every revision a document whose Web field holds a token the URL
\* oracle rejects fails Validate with the URL error carrying the 0-based
\* index of the first rejected token.  ComicInfov1.Validate (and the chains
\* built on it) split ci.Language instead of ci.Web.
C3_WebTokensChecked ==
    (pc = "ValidateReturned" /\ RejectedTokens(ci.Web) # {}) =>
        (err.kind = "URL" /\ err.pos = Min(RejectedTokens(ci.Web)) - 1)

\* C4: for every Revision 2 document whose CommunityRating is present,
\* the rating check succeeds if and only if 0.0 <= rating <= 5.0 and the
\* rating has at most 2 decimal digits (4.55 and 4.57 accepted, 4.555 and
\* 4.567 rejected).  The code's precision test compares the rounding
\* distance, which is at most 0.005, with 0.01 and so never fails.
C4_RatingTwoDigits ==
    (shape \in {"v2", "v2e", "v2l"} /\ pc = "ValidateReturned"
        /\ ci.CommunityRating # Nil) =>
        ((err.kind # "CommunityRating") <=> RatingRule(ci.CommunityRating))

\* C5: the Revision 2.1 rating check requires at most 2 decimal digits,
\* exactly like Revision 2, and returns the verdict of the Revision 2
\* rating validator for every rating value, absent or present.  The code
\* rounds to 1 digit within 0.1, which never fails either: both validators
\* agree, but neither enforces 2 digits.
C5_V21RatingLikeV2 ==
    (shape \in {"v21", "v21e"} /\ pc = "ValidateReturned"
        /\ (shape = "v21e" => ci.CommunityRating = Nil)) =>
        LET r == DeclaredRating(shape, ci)
        IN /\ (err.kind # "CommunityRating") <=> RatingRule(r)
           /\ (err.kind # "CommunityRating") <=> CommunityRatingIsValid(r)

\* the page collection the shape's Validate looks at
ValidatedPages(sh, d) == IF sh = "v1" THEN d.PagesV1 ELSE d.Pages

\* shapes whose descriptors are PageV1 (role test PageTypeV1.Valid)
PageV1Shapes == {"v1", "v2e", "v2l", "v21e"}

\* the roles the descriptor check of a shape lets through
RoleAccepted(sh, role) ==
    role \in PageTypeTokens \/ (sh \notin PageV1Shapes /\ role = "")

\* positions (1-based) of the descriptors whose key occurred earlier
Repeats(ps) == {j \in 1..Len(ps) : \E i \in 1..(j - 1) : ps[i].Key = ps[j].Key}

\* C6 as stated: the collection's Validate succeeds if and only if all keys
\* are pairwise distinct and every width and height is positive or -1; no
\* other property of a descriptor can make the collection invalid.
C6_OnlyKeysAndDimensions ==
    pc = "ValidateReturned" =>
        LET ps == ValidatedPages(shape, ci)
        IN (err = NoError) <=>
            /\ DistinctKeys(ps)
            /\ \A i \in 1..Len(ps) : /\ DimensionRule(ps[i].ImageWidth)
                                     /\ DimensionRule(ps[i].ImageHeight)

\* C6 amended: the collection's Validate succeeds if and only if all keys
\* are pairwise distinct, every descriptor's role passes the role inclusion
\* test and every width and height is positive or -1; nothing else (the
\* image index included) can make the collection invalid.
C6_KeysRolesAndDimensions ==
    pc = "ValidateReturned" =>
        LET ps == ValidatedPages(shape, ci)
        IN (err = NoError) <=>
            /\ DistinctKeys(ps)
            /\ \A i \in 1..Len(ps) : /\ RoleAccepted(shape, ps[i].Type)
                                     /\ DimensionRule(ps[i].ImageWidth)
                                     /\ DimensionRule(ps[i].ImageHeight)

\* a collection of two descriptors with distinct keys, one of them with a
\* negative image index, that Validate accepted, on a PageV1 shape
C6_Witness ==
    /\ pc = "ValidateReturned"
    /\ shape \in PageV1Shapes
    /\ err = NoError
    /\ Len(ValidatedPages(shape, ci)) = 2
    /\ \E i \in 1..2 : ValidatedPages(shape, ci)[i].Image < 0

\* C7: when a page collection of otherwise valid descriptors contains
\* repeated keys, Validate fails with the duplicate-key error at the 1-based
\* position of the earliest descriptor whose key occurred earlier.
C7_FirstDuplicatePosition ==
    LET ps == ValidatedPages(shape, ci)
    IN (/\ pc = "ValidateReturned"
        /\ Repeats(ps) # {}
        /\ \A i \in 1..Len(ps) : /\ ps[i].Type \in PageTypeTokens
                                 /\ DimensionRule(ps[i].ImageWidth)
                                 /\ DimensionRule(ps[i].ImageHeight))
       => err = Error("Pages", Min(Repeats(ps)), "duplicate key")

\* two descriptors both keyed "p001": duplicate key reported at position 2
C7_Witness ==
    LET ps == ValidatedPages(shape, ci)
    IN /\ pc = "ValidateReturned"
       /\ Len(ps) >= 2
       /\ ps[1].Key = "p001"
       /\ ps[2].Key = "p001"
       /\ err = Error("Pages", 2, "duplicate key")

C9_EmptyRoleAccepted ==
    LET ps == ValidatedPages(shape, ci)
    IN (/\ pc = "ValidateReturned"
        /\ Len(ps) = 1
        /\ ps[1].Type = ""
        /\ DimensionRule(ps[1].ImageWidth)
        /\ DimensionRule(ps[1].ImageHeight))
       => err = NoError

\* shapes whose Validate is one flat rule sequence
FlatShapes == {"v1", "v2l", "v2", "v21"}

\* the earliest rule a document violates, in the order URL tokens, language,
\* BlackAndWhite, Manga, AgeRating, page collection, community rating
FirstViolated(sh, d) ==
    IF ~WebRule(d) THEN "URL"
    ELSE IF ~LanguageRule(d) THEN "Language"
    ELSE IF d.BlackAndWhite \notin YesNoTokens \cup {""} THEN "BlackAndWhite"
    ELSE IF d.Manga \notin MangaTokens \cup {""} THEN "Manga"
    ELSE IF sh # "v1" /\ d.AgeRating \notin AgeRatingTokens \cup {""} THEN "AgeRating"
    ELSE IF ~PagesRule(ValidatedPages(sh, d)) THEN "Pages"
    ELSE IF sh # "v1" /\ ~RatingRule(d.CommunityRating) THEN "CommunityRating"
    ELSE "nil"

\* C10: validation is fail-fast in the fixed rule order URL tokens, language,
\* BlackAndWhite, Manga, AgeRating, page collection, community rating:
\* Validate returns the error of the earliest violated rule and makes no
\* oracle call of a later rule; a document violating both the URL rule and
\* the rating rule reports the URL violation.  The chains that split
\* ci.Language (C3) report the later rule instead.
C10_FailFastOrder ==
    (pc = "ValidateReturned" /\ shape \in FlatShapes) =>
        /\ err.kind = FirstViolated(shape, ci)
        /\ err.kind = "URL" =>
              /\ Len(calls) = err.pos + 1
              /\ \A i \in 1..Len(calls) : calls[i].oracle = "url.Parse"

\* shapes whose record embeds the record of the previous revision
EmbeddingShapes == {"v2e", "v21e"}

\* no rule of the inherited Revision 1 record is violated
V1RulesHold(d) ==
    /\ WebRule(d)
    /\ LanguageRule(d)
    /\ d.BlackAndWhite \in YesNoTokens \cup {""}
    /\ d.Manga \in MangaTokens \cup {""}
    /\ DistinctKeys(d.PagesV1)
    /\ \A i \in 1..Len(d.PagesV1) : /\ d.PagesV1[i].Type \in PageTypeTokens
                                    /\ DimensionRule(d.PagesV1[i].ImageWidth)
                                    /\ DimensionRule(d.PagesV1[i].ImageHeight)

\* C11: a Revision 2 document of the shape that embeds the Revision 1 record
\* and whose legacy page collection (ComicInfov1.Pages) is non-empty always
\* fails Validate, whatever its other fields hold; when no inherited
\* Revision 1 rule is violated the error is the legacy-pages error, raised
\* before the AgeRating, Revision 2 page collection and rating checks.
C11_LegacyPagesRejected ==
    (pc = "ValidateReturned" /\ shape \in EmbeddingShapes /\ Len(ci.PagesV1) > 0) =>
        /\ err # NoError
        /\ err.kind \notin {"AgeRating", "CommunityRating"}
        /\ V1RulesHold(ci) => err = Error("PagesV1Set", 0, "")

\* legacy pages set together with an unknown AgeRating and a rating out of
\* range: the legacy-pages error is the one returned
C11_Witness ==
    /\ pc = "ValidateReturned"
    /\ shape = "v2e"
    /\ Len(ci.PagesV1) > 0
    /\ ci.AgeRating = "Bogus"
    /\ ci.CommunityRating = <<7000>>
    /\ err = Error("PagesV1Set", 0, "")

\* the record a shape inherits, as a shape of its own
InheritedShape(sh) == IF sh = "v21e" THEN "v2e" ELSE "v1"

\* a rule the embedding revision adds is violated
OwnRuleViolated(sh, d) ==
    IF sh = "v21e"
    THEN ~(d.CommunityRating21 = Nil
           \/ (d.CommunityRating21[1] >= 0 /\ d.CommunityRating21[1] <= 5 * Milli))
    ELSE \/ Len(d.PagesV1) > 0
         \/ d.AgeRating \notin AgeRatingTokens \cup {""}
         \/ ~(d.CommunityRating = Nil
              \/ (d.CommunityRating[1] >= 0 /\ d.CommunityRating[1] <= 5 * Milli))

\* C12: Validate of a revision that embeds the previous one first runs the
\* complete Validate of the embedded record and only then its own additions:
\* when Validate succeeds, Validate of the inherited record succeeds too
\* (Revision 2.1 over Revision 2 over Revision 1), and when the inherited
\* record is invalid its error is the one returned, whatever rules of the
\* revision's own additions are violated as well.
C12_InheritedRulesFirst ==
    (pc = "ValidateReturned" /\ shape \in EmbeddingShapes) =>
        LET inherited == ValidateOf(InheritedShape(shape), ci)
        IN /\ err = NoError => /\ inherited.err = NoError
                               /\ ComicInfov1Validate(ci).err = NoError
           /\ inherited.err # NoError => /\ err = inherited.err
                                         /\ calls = inherited.calls

\* a Revision 2.1 document whose inherited AgeRating is unknown and whose
\* own rating is out of range: the inherited error is returned
C12_Witness ==
    /\ pc = "ValidateReturned"
    /\ shape = "v21e"
    /\ ci.AgeRating = "Bogus"
    /\ OwnRuleViolated(shape, ci)
    /\ err = Error("AgeRating", 0, "")

\* C13: Encode called with a nil sink returns the precondition error before
\* validation is attempted: Validate is not invoked, no oracle is consulted
\* and the error is the precondition error even when the document is also
\* invalid.
C13_NilSinkBeforeValidation ==
    output = "nil" =>
        /\ pc = "EncodeReturned"
        /\ err = Error("output nil", 0, "")
        /\ calls = <<>>
        /\ sink = <<>>
        /\ root = <<>>

\* Encode(nil) on a document whose language tag the oracle would reject
C13_Witness ==
    /\ output = "nil"
    /\ pc = "EncodeReturned"
    /\ ci.Language # <<>>
    /\ ValidateOf(shape, ci).err # NoError
    /\ ValidateOf(shape, ci).calls # <<>>
    /\ err.kind = "output nil"

\* C14: every Encode call follows the order Unvalidated -> HeaderWritten ->
\* Done: the declaration is written to the sink only after Validate has
\* succeeded, the body is serialized only after the declaration write has
\* succeeded (a failed declaration write returns an error with no body byte
\* written), and Encode returns success only from Done, with declaration
\* and body both written without error.
C14_EncodeOrder ==
    output = "writer" =>
        /\ sink # <<>> => (sink[1] = "header" /\ ValidateOf(shape, ci).err = NoError)
        /\ pc = "Validated" => (sink = <<>> /\ ValidateOf(shape, ci).err = NoError)
        /\ pc = "HeaderWritten" => (sink = <<"header">> /\ root = <<>>)
        /\ pc = "Done" => (sink = <<"header", "body">> /\ root # <<>> /\ err = NoError)
        /\ pc = "EncodeReturned" => (err # NoError /\ root = <<>>)
        /\ err.kind = "write header" => sink = <<>>

\* a complete run: declaration and body written, success returned
C14_Witness ==
    /\ output = "writer"
    /\ pc = "Done"
    /\ sink = <<"header", "body">>
    /\ ci.Web # <<>>

\* C15: in every revision the root element written by Encode is named
\* "ComicInfo", not after the revision's record type.  Only
\* ComicInfov2.MarshalXML of src/v2.go sets start.Name.Local; the other
\* MarshalXML methods keep the name encoding/xml derives from the Go type.
C15_RootNamedComicInfo ==
    pc = "Done" => root[1].name = "ComicInfo"

\* the canonical schema URL of the revision a shape belongs to
SchemaLocationOf(sh) ==
    CASE sh = "v1" -> v1SchemaLocationURL
      [] sh \in {"v2e", "v2l", "v2"} -> v2SchemaLocationURL
      [] sh \in {"v21e", "v21"} -> v21SchemaLocationURL

\* C16: on every successful Encode the root element carries the two injected
\* attributes: the XML-Schema-instance namespace declaration and a
\* schemaLocation whose value is the canonical schema URL of the document's
\* own revision, never another revision's URL.  With an embedded record the
\* MarshalXML of the embedded record is promoted to attr and the embedded
\* revision's URL is written.
C16_OwnSchemaLocation ==
    pc = "Done" =>
        /\ root[1].xsi = xmlnsxni
        /\ root[1].schemaLocation = SchemaLocationOf(shape)

\* the element name of a field of the document record
ElementName(f) ==
    CASE f = "Language" -> "LanguageISO"
      [] f \in {"PagesV1", "Pages", "Pages21"} -> "Pages"
      [] f \in {"CommunityRating", "CommunityRating21"} -> "CommunityRating"
      [] OTHER -> f

\* the child elements a document must produce: one per non-empty field
ExpectedChildren(sh, d) == {ElementName(f) : f \in {g \in FieldsOf(sh) : d[g] # Zero[g]}}

Range(seq) == {seq[i] : i \in 1..Len(seq)}

\* C17: body serialization emits one child element per non-empty field and
\* omits every field holding its zero value: a valid document with an empty
\* page collection produces no Pages element and a document with all fields
\* zero produces a root element with no children.  PagesV2 of src/v2.go is
\* a struct, which omitempty never omits.
C17_ZeroFieldsOmitted ==
    pc = "Done" => Range(root[1].children) = ExpectedChildren(shape, ci)

\* C18: the order of page descriptors is preserved verbatim: after a
\* successful Encode the sequence of Page elements in the output is exactly
\* the sequence of the document's page collection.  With an embedded record
\* (see C16) the page collection of the outer record is not written at all.
C18_PageOrderPreserved ==
    pc = "Done" => root[1].Pages = DeclaredPages(shape, ci)

C20_DocumentUnchanged == [][ci' = ci /\ shape' = shape]_vars

\* a document with pages, validated and then encoded
C20_Witness ==
    /\ Len(done) >= 1
    /\ done[1].op = "Validate"
    /\ pc = "Done"
    /\ ci.Pages # <<>>
    /\ ci.Manga # ""

\* the states a call can be in when it runs alone on its document
RunsAlone(c) ==
    LET v == ValidateOf(c.shape, c.ci)
    IN CASE c.pc = "idle" ->
              c.sink = <<>> /\ c.root = <<>> /\ c.err = NoError /\ c.calls = <<>>
         [] c.pc = "ValidateReturned" ->
              c.err = v.err /\ c.calls = v.calls /\ c.sink = <<>> /\ c.root = <<>>
         [] c.pc = "Unvalidated" ->
              c.sink = <<>> /\ c.root = <<>> /\ c.err = NoError /\ c.calls = <<>>
         [] c.pc = "Validated" ->
              /\ v.err = NoError /\ c.calls = v.calls
              /\ c.sink = <<>> /\ c.root = <<>> /\ c.err = NoError
         [] c.pc = "HeaderWritten" ->
              /\ v.err = NoError /\ c.calls = v.calls
              /\ c.sink = <<"header">> /\ c.root = <<>> /\ c.err = NoError
         [] c.pc = "Done" ->
              /\ v.err = NoError /\ c.calls = v.calls
              /\ c.sink = <<"header", "body">>
              /\ c.root = <<MarshalXMLOf(c.shape, c.ci)>>
              /\ c.err = NoError
         [] c.pc = "EncodeReturned" ->
              /\ c.root = <<>>
              /\ \/ /\ c.output = "nil"
                    /\ c.err = Error("output nil", 0, "")
                    /\ c.sink = <<>> /\ c.calls = <<>>
                 \/ /\ c.output = "writer" /\ v.err # NoError
                    /\ c.err = Wrap("validation failed", v.err)
                    /\ c.sink = <<>> /\ c.calls = v.calls
                 \/ /\ c.output = "writer" /\ v.err = NoError
                    /\ c.err = Error("write header", 0, "")
                    /\ c.sink = <<>> /\ c.calls = v.calls
                 \/ /\ c.output = "writer" /\ v.err = NoError
                    /\ c.err = Error("encode", 0, "")
                    /\ c.sink \in {<<"header">>, <<"header", "partial">>}
                    /\ c.calls = v.calls

\* C21: concurrent Encode calls on distinct documents with distinct sinks do
\* not interfere: under every interleaving of their steps each call is in a
\* state, returns a result and has written the bytes that it would when run
\* alone on its document, and a step of one goroutine changes nothing of
\* the other.
C21_NoInterference ==
    /\ RunsAlone(Running)
    /\ \A i \in 1..Len(parked) : RunsAlone(parked[i])

\* both calls complete, their steps interleaved: each sink holds the
\* declaration and the body of its own document
C21_Witness ==
    /\ Len(parked) = 1
    /\ pc = "Done"
    /\ parked[1].pc = "Done"
    /\ parked[1].shape = "v2"
    /\ shape = "v1"
    /\ ci.Web # <<>>
    /\ root[1].Web = ci.Web
    /\ parked[1].root[1].Pages = parked[1].ci.Pages

\* C22: in every revision the language rule passes on an empty language
\* field without consulting the language-tag oracle, and on a non-empty one
\* it passes if and only if the oracle accepts the value; a document whose
\* only defect is a non-empty language the oracle rejects fails Validate
\* with the language error.  The chains that split ci.Language in the URL
\* loop (C3) hand the language to the URL oracle first and report its error.
C22_LanguageRule ==
    (/\ pc = "ValidateReturned"
     /\ WebRule(ci)
     /\ ci.BlackAndWhite = "" /\ ci.Manga = "" /\ ci.AgeRating = ""
     /\ ci.PagesV1 = <<>> /\ ci.Pages = <<>>
     /\ ci.CommunityRating = Nil /\ ci.CommunityRating21 = Nil) =>
        IF ci.Language = <<>>
        THEN /\ err = NoError
             /\ \A i \in 1..Len(calls) : calls[i].oracle # "language.Parse"
        ELSE /\ (err = NoError) <=> languageParse(ci.Language)
             /\ ~languageParse(ci.Language) => err.kind = "Language"

\* the descriptor passes the descriptor check of the shape
DescriptorAccepted(sh, p) ==
    /\ RoleAccepted(sh, p.Type)
    /\ DimensionRule(p.ImageWidth)
    /\ DimensionRule(p.ImageHeight)

\* positions (1-based) of the descriptors the descriptor check rejects
Rejected(sh, ps) == {i \in 1..Len(ps) : ~DescriptorAccepted(sh, ps[i])}

\* C23 as stated: the page collection check applies the key-uniqueness
\* invariant to the whole collection before it validates the descriptors:
\* for a collection with both a duplicate key and a descriptor with an
\* invalid role or dimension the error is the duplicate-key error, wherever
\* the two are.
C23_DuplicateBeforeDescriptors ==
    LET ps == ValidatedPages(shape, ci)
    IN (/\ pc = "ValidateReturned"
        /\ Repeats(ps) # {}
        /\ Rejected(shape, ps) # {})
       => err = Error("Pages", Min(Repeats(ps)), "duplicate key")

\* C23 amended: the page collection check walks the collection once and at
\* each position tests the key against the keys seen so far and then
\* validates the descriptor: the error is that of the smallest position
\* holding a repeated key or an invalid descriptor, the duplicate-key error
\* if the key at that position is repeated and the descriptor error
\* otherwise.
C23_FirstDefectInOnePass ==
    LET ps == ValidatedPages(shape, ci)
        defects == Repeats(ps) \cup Rejected(shape, ps)
    IN (pc = "ValidateReturned" /\ defects # {}) =>
        /\ err.kind = "Pages"
        /\ err.pos = Min(defects)
        /\ (err.cause = "duplicate key") <=> (Min(defects) \in Repeats(ps))

\* an invalid descriptor at position 1 and a repeated key at position 3:
\* Validate returned the descriptor error of page 1
C23_Witness ==
    LET ps == ValidatedPages(shape, ci)
    IN /\ pc = "ValidateReturned"
       /\ Len(ps) = 3
       /\ Repeats(ps) = {3}
       /\ 1 \in Rejected(shape, ps)
       /\ err.kind = "Pages"
       /\ err.pos = 1
       /\ err.cause # "duplicate key"

\* the error PageV1.Validate / PageV2.Validate names for a descriptor the
\* shape rejects: role, then width, then height
FirstDescriptorDefect(sh, p) ==
    IF ~RoleAccepted(sh, p.Type) THEN "invalid page type"
    ELSE IF ~DimensionRule(p.ImageWidth) THEN "image width"
    ELSE "image height"

\* C24: for a page collection with pairwise distinct keys and at least one
\* invalid descriptor, Validate reports the smallest 1-based position of an
\* invalid descriptor, and within that descriptor the role is checked before
\* the width and the width before the height.  (Which roles are invalid is
\* the shape's role test, see C9.)
C24_FirstInvalidDescriptor ==
    LET ps == ValidatedPages(shape, ci)
    IN (/\ pc = "ValidateReturned"
        /\ DistinctKeys(ps)
        /\ Rejected(shape, ps) # {})
       => LET i == Min(Rejected(shape, ps))
          IN err = Error("Pages", i, FirstDescriptorDefect(shape, ps[i]))

\* a valid descriptor followed by one with an unknown role and width 0,
\* keys distinct: Validate returned the role error of page 2
C24_Witness ==
    LET ps == ValidatedPages(shape, ci)
    IN /\ pc = "ValidateReturned"
       /\ Len(ps) >= 2
       /\ DistinctKeys(ps)
       /\ DescriptorAccepted(shape, ps[1])
       /\ ps[2].Type = "Bogus"
       /\ ps[2].ImageWidth = 0
       /\ err = Error("Pages", 2, "invalid page type")

\* the rating is absent or a number of [0.0, 5.0]
InRange(r) == r = Nil \/ (~IsNaN(r) /\ r[1] >= 0 /\ r[1] <= 5 * Milli)

\* the rating fields the shape's Validate looks at
ValidatedRatings(sh, d) ==
    IF sh = "v21e" THEN {d.CommunityRating, d.CommunityRating21} ELSE {d.CommunityRating}

\* C25: in Revision 2 and Revision 2.1, in every shape of the document
\* records, a present community rating below 0 or above 5 makes Validate
\* fail, and no successfully validated document carries a rating outside
\* [0.0, 5.0] in the rating field that Encode serializes.  The validators
\* written as a chain of '<' and '>' tests let the float64 NaN through.
C25_RatingInRange ==
    (pc = "ValidateReturned" /\ shape # "v1") =>
        /\ (\E r \in ValidatedRatings(shape, ci) :
                r # Nil /\ (Less(r, 0) \/ Greater(r, 5 * Milli))) => err # NoError
        /\ err = NoError => InRange(DeclaredRating(shape, ci))

\* the page collection with every image index replaced by n
Reindexed(ps, n) == [i \in 1..Len(ps) |-> [ps[i] EXCEPT !.Image = n]]

\* the document with every image index of its page collections replaced by n
WithImageIndex(d, n) ==
    [d EXCEPT !.PagesV1 = Reindexed(d.PagesV1, n),
              !.Pages = Reindexed(d.Pages, n),
              !.Pages21 = Reindexed(d.Pages21, n)]

\* C26 as stated: after a successful Validate every page descriptor of the
\* document has a non-negative image index; a descriptor with a negative
\* image index makes page validation fail.
C26_ImageIndexNonNegative ==
    LET ps == ValidatedPages(shape, ci)
    IN (pc = "ValidateReturned" /\ err = NoError) =>
        \A i \in 1..Len(ps) : ps[i].Image >= 0

\* C26 amended: Validate does not look at the image index of a descriptor:
\* the result of Validate is the one it returns for the same document with
\* any other image indexes, negative ones included, so a valid collection
\* may hold descriptors with a negative image index.
C26_ImageIndexIgnored ==
    pc = "ValidateReturned" =>
        \A n \in {-1, 0, 1} : err = ValidateOf(shape, WithImageIndex(ci, n)).err

\* a single descriptor with image index -1 in the typed Revision 2 record,
\* accepted by Validate
C26_Witness ==
    /\ pc = "ValidateReturned"
    /\ shape = "v2"
    /\ Len(ci.Pages) = 1
    /\ ci.Pages[1].Image = -1
    /\ err = NoError

\* C27: an absent (not set) community rating is valid in every revision,
\* and Validate reaches the rating error path, which reads the rating's
\* value to format the message, only when the rating is present: no
\* execution of Validate or Encode dereferences an absent rating.
C27_AbsentRatingNeverRead ==
    /\ err.kind # "panic"
    /\ pc = "ValidateReturned" =>
          /\ (\A r \in ValidatedRatings(shape, ci) : r = Nil) =>
                err.kind # "CommunityRating"
          /\ err.kind = "CommunityRating" =>
                (shape # "v1" /\ \E r \in ValidatedRatings(shape, ci) : r # Nil)

\* the record embedding Revision 2 with the inherited rating absent and its
\* own rating present and above 5: the inherited test passed on the absent
\* rating and Validate returned the rating error for the present one
C27_Witness ==
    /\ pc = "ValidateReturned"
    /\ shape = "v21e"
    /\ ci.CommunityRating = Nil
    /\ ci.CommunityRating21 # Nil
    /\ Greater(ci.CommunityRating21, 5 * Milli)
    /\ err.kind = "CommunityRating"

\* positions (1-based) of the descriptors whose key is the empty string
EmptyKeyed(ps) == {i \in 1..Len(ps) : ps[i].Key = ""}

C29_V1MangaVocabulary ==
    (/\ pc = "ValidateReturned"
     /\ shape = "v1"
     /\ ci.Language = <<>>
     /\ ci.PagesV1 = <<>>) =>
        LET bw == ci.BlackAndWhite \in {"", "Unknown", "No", "Yes"}
            manga == ci.Manga \in {"", "Unknown", "No", "Yes", "YesAndRightToLeft"}
        IN /\ (err.kind = "BlackAndWhite") <=> ~bw
           /\ bw => ((err.kind = "Manga") <=> ~manga)
           /\ (err.kind = "Manga") <=> (ValidateOf("v2l", ci).err.kind = "Manga")
           /\ (bw /\ ci.Manga = "YesAndRightToLeft") => err = NoError

\* a Revision 1 document with Manga = "YesAndRightToLeft" that Validate
\* accepted
C29_Witness ==
    /\ pc = "ValidateReturned"
    /\ shape = "v1"
    /\ ci.Manga = "YesAndRightToLeft"
    /\ ci.BlackAndWhite = "No"
    /\ err = NoError

\* the inherited fields that the outer record re-declares under the same
\* element name, so that the outer field replaces them in the output
ShadowedFields(sh) ==
    CASE sh = "v2e" -> {"PagesV1"}
      [] sh = "v21e" -> {"PagesV1", "Pages", "CommunityRating"}
      [] OTHER -> {}

\* the document d with its shadowed fields replaced by the given values
WithShadowed(sh, d, legacy, ps, r) ==
    [d EXCEPT !.PagesV1 = IF "PagesV1" \in ShadowedFields(sh) THEN legacy ELSE @,
              !.Pages = IF "Pages" \in ShadowedFields(sh) THEN ps ELSE @,
              !.CommunityRating =
                  IF "CommunityRating" \in ShadowedFields(sh) THEN r ELSE @]

\* C30: the verdict of Validate depends only on fields that Encode
\* serializes: two documents of the same revision that agree on every
\* serialized field receive the same Validate result; in the Revision 2.1
\* record that embeds the Revision 2 record the shadowed CommunityRating and
\* Pages of the inherited record cannot change the verdict.  The embedding
\* records validate the inherited record as a whole, shadowed fields
\* included.
C30_VerdictFromSerializedFields ==
    pc = "ValidateReturned" =>
        \A legacy \in SampleDom.PagesV1, ps \in SamplePages, r \in SampleRatings :
            (ValidateOf(shape, WithShadowed(shape, ci, legacy, ps, r)).err = NoError)
                <=> (err = NoError)

====
